---- MODULE Spec2Model ----
(***************************************************************************)
(* Model of patchcfg (src/main.rs): the diff builder (build_diff), the     *)
(* patch rewriter (write_modified_file) and the run that drives them over  *)
(* a package's engines.cfg and flight_model.cfg.                           *)
(*                                                                         *)
(* Text is a sequence of one-character strings, so that splitting,         *)
(* trimming and formatting are computed on characters as the code does.    *)
(***************************************************************************)
EXTENDS Integers, Sequences, FiniteSets, TLC

(***************************************************************************)
(* Bounds of the text inputs.                                              *)
(***************************************************************************)
MaxLines == 2

\* Option<T>::None
None == "None"

(***************************************************************************)
(* str primitives used by the code.                                        *)
(***************************************************************************)
\* char::is_whitespace, restricted to the characters of the model
White == {" ", "\t", "\r", "\n"}

RECURSIVE trim_start(_)
trim_start(s) ==
    IF s /= <<>> /\ Head(s) \in White THEN trim_start(Tail(s)) ELSE s

RECURSIVE trim_end(_)
trim_end(s) ==
    IF s /= <<>> /\ s[Len(s)] \in White
    THEN trim_end(SubSeq(s, 1, Len(s) - 1))
    ELSE s

\* str::trim
trim(s) == trim_end(trim_start(s))

\* position of the first occurrence of character c in s, 0 when there is none
find_char(s, c) ==
    IF \E i \in 1..Len(s) : s[i] = c
    THEN CHOOSE i \in 1..Len(s) : s[i] = c /\ \A j \in 1..(i - 1) : s[j] /= c
    ELSE 0

\* str::split_once(c): None, or <<before, after>> around the first c
split_once(s, c) ==
    LET i == find_char(s, c)
    IN  IF i = 0 THEN None
        ELSE <<SubSeq(s, 1, i - 1), SubSeq(s, i + 1, Len(s))>>

\* one item of str::lines: the text up to the first "\n", with that "\n" and a
\* "\r" right before it stripped; a final piece without "\n" is returned as is
strip_line_ending(piece) ==
    IF piece /= <<>> /\ piece[Len(piece)] = "\n"
    THEN LET l == SubSeq(piece, 1, Len(piece) - 1)
         IN  IF l /= <<>> /\ l[Len(l)] = "\r"
             THEN SubSeq(l, 1, Len(l) - 1)
             ELSE l
    ELSE piece

\* str::lines: split after every "\n"; no empty piece after a final "\n"
RECURSIVE lines(_)
lines(text) ==
    IF text = <<>> THEN <<>>
    ELSE LET i == find_char(text, "\n")
         IN  IF i = 0 THEN <<strip_line_ending(text)>>
             ELSE <<strip_line_ending(SubSeq(text, 1, i))>>
                  \o lines(SubSeq(text, i + 1, Len(text)))

(***************************************************************************)
(* HashMap<String, V> as a function from keys to values.                   *)
(***************************************************************************)
EmptyMap == [k \in {} |-> <<>>]

is_empty(m) == DOMAIN m = {}

\* HashMap::insert: a later insert replaces the entry of the key
insert(m, k, v) == [x \in (DOMAIN m) \cup {k} |-> IF x = k THEN v ELSE m[x]]

(***************************************************************************)
(* build_diff: main.rs 78-103.                                             *)
(***************************************************************************)
\* the body of the for loop with an entry that is never replaced: the first
\* differing line of a key decides
build_diff_line_first_wins(patch, diff, line) ==
    LET kt == split_once(line, "=")
    IN  IF kt = None THEN diff
        ELSE LET key   == trim(kt[1])
                 tail  == kt[2]
                 vc    == split_once(tail, ";")
                 value == IF vc = None THEN tail ELSE vc[1]
             IN  IF key \in DOMAIN patch
                 THEN IF trim(value) = patch[key] \/ key \in DOMAIN diff
                      THEN diff
                      ELSE insert(diff, key, <<patch[key], value>>)
                 ELSE diff

\* the body of the for loop, for one line
build_diff_line(patch, diff, line) ==
    LET kt == split_once(line, "=")
    IN  IF kt = None THEN diff
        ELSE LET key   == trim(kt[1])
                 tail  == kt[2]
                 vc    == split_once(tail, ";")
                 value == IF vc = None THEN tail ELSE vc[1]
             IN  IF key \in DOMAIN patch
                 THEN IF trim(value) = patch[key]
                      THEN diff
                      ELSE insert(diff, key, <<patch[key], value>>)
                 ELSE diff

RECURSIVE build_diff_from(_, _, _, _)
build_diff_from(patch, ls, i, diff) ==
    IF i > Len(ls) THEN diff
    ELSE build_diff_from(patch, ls, i + 1, build_diff_line(patch, diff, ls[i]))

build_diff(patch, text) == build_diff_from(patch, lines(text), 1, EmptyMap)

(***************************************************************************)
(* write_modified_file, the construction of buf: main.rs 136-171.          *)
(***************************************************************************)
\* format!("{key} = {value} ; {original} ; {comment}")
format_with_comment(key, value, original, comment) ==
    key \o <<" ", "=", " ">> \o value \o <<" ", ";", " ">> \o original
        \o <<" ", ";", " ">> \o comment

\* format!("{key} = {value} ; {original}")
format_no_comment(key, value, original) ==
    key \o <<" ", "=", " ">> \o value \o <<" ", ";", " ">> \o original

\* the line written for one input line, without the "\n" of writeln!;
\* <<written line, printed>> where printed says whether println! ran
modified_line(changes, line) ==
    LET kt == split_once(line, "=")
    IN  IF kt = None THEN <<line, FALSE>>
        ELSE LET key  == trim(kt[1])
                 tail == kt[2]
                 vc   == split_once(tail, ";")
             IN  IF key \in DOMAIN changes
                 THEN IF vc /= None
                      THEN <<format_with_comment(key, changes[key][1],
                                                 changes[key][2], vc[2]), TRUE>>
                      ELSE <<format_no_comment(key, changes[key][1],
                                               changes[key][2]), TRUE>>
                 ELSE <<line, FALSE>>

\* buf after the loop: every written line followed by "\n"
RECURSIVE modified_buf(_, _, _)
modified_buf(changes, ls, i) ==
    IF i > Len(ls) THEN <<>>
    ELSE modified_line(changes, ls[i])[1] \o <<"\n">>
         \o modified_buf(changes, ls, i + 1)

\* the lines given to println!, in order
RECURSIVE modified_printed(_, _, _)
modified_printed(changes, ls, i) ==
    IF i > Len(ls) THEN <<>>
    ELSE (IF modified_line(changes, ls[i])[2]
          THEN <<modified_line(changes, ls[i])[1]>> ELSE <<>>)
         \o modified_printed(changes, ls, i + 1)

(***************************************************************************)
(* Inputs of the text pipeline: files made of up to MaxLines lines.        *)
(***************************************************************************)
KeyParts     == { <<"k", " ">>, <<" ", "k">>, <<"j">> }
ValueParts   == { <<"1">>, <<" ", "1", " ">>, <<" ", "2", " ">> }
CommentParts == { <<" ", "c">> }

OpaqueLines == { <<>>, <<";", "c">> }
AssignLines ==
    { k \o <<"=">> \o v : k \in KeyParts, v \in ValueParts }
    \cup { kv[1] \o <<"=">> \o kv[2] \o <<";">> \o c :
               kv \in KeyParts \X ValueParts, c \in CommentParts }
InputLines == OpaqueLines \cup AssignLines

\* line ending conventions of a file
LF   == <<"\n">>
CRLF == <<"\r", "\n">>

RECURSIVE join_lines(_, _, _)
join_lines(ls, eol, final) ==
    IF ls = <<>> THEN <<>>
    ELSE IF Len(ls) = 1 THEN ls[1] \o (IF final THEN eol ELSE <<>>)
    ELSE ls[1] \o eol \o join_lines(Tail(ls), eol, final)

LineSeqs == UNION { [1..n -> InputLines] : n \in 0..MaxLines }

InputTexts ==
    { join_lines(t[1], t[2], t[3]) : t \in LineSeqs \X {LF, CRLF} \X BOOLEAN }

\* the "engines" / "flight_model" tables of a Patch: key -> desired value
PatchValues == { <<"1">>, <<"2">>, <<"1", ";", "2">>, <<" ", "1">> }
InputPatches == { [k \in {<<"k">>} |-> v] : v \in PatchValues }

(***************************************************************************)
(* The text pipeline (SpecText): build_diff, write_modified_file's buf and *)
(* a second build_diff on the text just written, over InputTexts.          *)
(***************************************************************************)
(***************************************************************************)
(* The file system of one package and the run over it.                     *)
(***************************************************************************)
MaxRuns == 2

\* what a file name holds: no file, or a file with its text
NoFile == [exists |-> FALSE, content |-> <<>>]
File(t) == [exists |-> TRUE, content |-> t]

Categories == {"engines", "flight_model"}

\* a file name as its components between the dots: engines.cfg
file_name(c) == <<c, "cfg">>

\* Path::with_extension: the part after the last dot is replaced
with_extension(name, ext) ==
    IF Len(name) > 1
    THEN SubSeq(name, 1, Len(name) - 1) \o ext
    ELSE name \o ext

\* the backup path computed with the extension the file already has
backup_path_same_extension(path) == with_extension(path, <<"cfg">>)

\* patch.path.with_extension("bak.cfg")
backup_path(path) == with_extension(path, <<"bak", "cfg">>)

\* the names a package directory may hold: engines.cfg, engines.bak.cfg, ...
backup_name(c) == <<c, "bak", "cfg">>

FileNames ==
    { file_name(c) : c \in Categories } \cup { backup_name(c) : c \in Categories }

\* fs::rename: fails when the source is missing; replaces the destination
\* when it already exists
rename_fails(f, from) == f[from] = NoFile

rename(f, from, to) ==
    IF from = to THEN f
    ELSE [f EXCEPT ![to] = f[from], ![from] = NoFile]

\* find_path on a readable subtree: the path of the entry named filename
find_path(f, filename) == IF f[filename] /= NoFile THEN filename ELSE None

\* PathChanges::default()
DefaultPathChanges == [path |-> <<>>, changes |-> EmptyMap]

\* Diff::default()
DefaultDiff == [c \in Categories |-> DefaultPathChanges]

\* contents of the config files before the first run
FileTexts ==
    { join_lines(<< <<"k", " ", "=", " ", "1", " ", ";", " ", "c">>,
                    <<"j", " ", "=", " ", "2">> >>, LF, TRUE),
      join_lines(<< <<"k", "=", "2">> >>, CRLF, TRUE),
      join_lines(<< <<";", "c">> >>, LF, FALSE) }

\* the patch specification document of a run: the Patch of the package,
\* or a document that does not parse
Malformed == [parses |-> FALSE, engines |-> EmptyMap, flight_model |-> EmptyMap]
KMap(v) == [k \in {<<"k">>} |-> v]
PatchDocs ==
    { [parses |-> TRUE, engines |-> e, flight_model |-> f] :
          e \in {EmptyMap, KMap(<<"1">>), KMap(<<"2">>)},
          f \in {EmptyMap, KMap(<<"1">>)} }
    \cup {Malformed}

\* One directory of the packages root has a Patch in the document; the
\* other entries are filtered out by read_packages.
\* the entries fs::read_dir yields for the packages root, in order:
\* "err" an entry that cannot be read, "file" a plain file, "other" a
\* directory without a patch, "pkg" the directory of the patched package
DirListings ==
    { <<>>, <<"pkg">>, <<"err", "pkg">>, <<"file", "other", "pkg">> }

\* nothing loaded yet
NoPatches == [engines |-> EmptyMap, flight_model |-> EmptyMap]

\* no write_modified_file call yet in this run
NoCall ==
    [cat |-> "-", path |-> <<>>, pre |-> NoFile, bak_pre |-> NoFile,
     buf |-> <<>>, log |-> <<>>, ret |-> "none", rename_failed |-> FALSE]

VARIABLES
    fs,          \* file name -> content, or NoFile
    listing,     \* the entries of the packages root
    doc,         \* the patch specification document of this run
    runs,        \* number of runs started
    pc,          \* position of the run
    patches,     \* the loaded Patch of the package
    entries,     \* entries read_dir has still to yield
    diff,        \* the Diff of the package
    wmf,         \* the current or last write_modified_file call
    result,      \* "running", "ok" (exit 0) or "err" (exit 1)
    stdout,      \* the lines printed
    errors_met,  \* the I/O and parse failures met in this run
    invoked,     \* categories write_modified_file was called for in this run
    fs0          \* the file system when this run started

svars == <<fs, listing, doc, runs, pc, patches, entries, diff, wmf, result,
           stdout, errors_met, invoked, fs0>>

VARIABLES text, patch, stage, changes, buf, changes2

tvars == <<text, patch, stage, changes, buf, changes2>>

vars == <<svars, tvars>>

\* the text pipeline at rest
TIdle ==
    /\ text = <<>>
    /\ patch = EmptyMap
    /\ stage = "idle"
    /\ changes = EmptyMap
    /\ buf = <<>>
    /\ changes2 = EmptyMap

\* the run at rest
SIdle ==
    /\ fs = [n \in FileNames |-> NoFile]
    /\ listing = <<>>
    /\ doc = Malformed
    /\ runs = 0
    /\ pc = "idle"
    /\ patches = NoPatches
    /\ entries = <<>>
    /\ diff = DefaultDiff
    /\ wmf = NoCall
    /\ result = "running"
    /\ stdout = <<>>
    /\ errors_met = {}
    /\ invoked = {}
    /\ fs0 = [n \in FileNames |-> NoFile]

TInit ==
    /\ text \in InputTexts
    /\ patch \in InputPatches
    /\ stage = "start"
    /\ changes = EmptyMap
    /\ buf = <<>>
    /\ changes2 = EmptyMap
    /\ SIdle

\* Patch::diff on a found file: changes = build_diff(patch, text)
TBuildDiff ==
    /\ stage = "start"
    /\ changes' = build_diff(patch, text)
    /\ stage' = "diffed"
    /\ UNCHANGED <<text, patch, buf, changes2, svars>>

\* Diff::write_changes: write_modified_file only for a non-empty change set
TWriteModifiedFile ==
    /\ stage = "diffed"
    /\ ~is_empty(changes)
    /\ buf' = modified_buf(changes, lines(text), 1)
    /\ stage' = "written"
    /\ UNCHANGED <<text, patch, changes, changes2, svars>>

\* the next run's build_diff, on the text just written
TRebuildDiff ==
    /\ stage = "written"
    /\ changes2' = build_diff(patch, buf)
    /\ stage' = "rediffed"
    /\ UNCHANGED <<text, patch, changes, buf, svars>>

TNext == TBuildDiff \/ TWriteModifiedFile \/ TRebuildDiff

SpecText == TInit /\ [][TNext]_vars

(***************************************************************************)
(* The run: main.rs 185-195 and what it calls.                             *)
(***************************************************************************)
Init ==
    /\ fs \in { f \in [FileNames -> {File(t) : t \in FileTexts} \cup {NoFile}] :
                    \A c \in Categories : f[backup_name(c)] = NoFile }
    /\ listing \in DirListings
    /\ doc \in PatchDocs
    /\ runs = 1
    /\ pc = "read_patches"
    /\ patches = NoPatches
    /\ entries = <<>>
    /\ diff = DefaultDiff
    /\ wmf = NoCall
    /\ result = "running"
    /\ stdout = <<>>
    /\ errors_met = {}
    /\ invoked = {}
    /\ fs0 = fs
    /\ TIdle

\* run returns Err(e): main prints it and exits with status 1
Fail(kind) ==
    /\ errors_met' = errors_met \cup {kind}
    /\ result' = "err"
    /\ pc' = "exit"

\* read_patches: the document is read and parsed, or the run fails
read_patches ==
    /\ pc = "read_patches"
    /\ \E read_ok \in BOOLEAN :
           IF ~read_ok
           THEN Fail("read_patches") /\ UNCHANGED patches
           ELSE IF ~doc.parses
           THEN Fail("parse") /\ UNCHANGED patches
           ELSE /\ patches' = [engines |-> doc.engines,
                             flight_model |-> doc.flight_model]
                /\ pc' = "read_packages"
                /\ UNCHANGED <<errors_met, result>>
    /\ UNCHANGED <<fs, listing, doc, runs, entries, diff, wmf, stdout,
                   invoked, fs0, tvars>>

\* read_packages: fs::read_dir(path)? opens the packages root
read_packages ==
    /\ pc = "read_packages"
    /\ \E read_ok \in BOOLEAN :
           IF ~read_ok
           THEN Fail("read_dir") /\ UNCHANGED entries
           ELSE /\ entries' = listing
                /\ pc' = "next_package"
                /\ UNCHANGED <<errors_met, result>>
    /\ UNCHANGED <<fs, listing, doc, runs, patches, diff, wmf, stdout,
                   invoked, fs0, tvars>>

\* one step of the packages iterator of the for loop in run: an entry that
\* fails (entry.ok()?), is no directory, or has no patch is filtered out
next_package ==
    /\ pc = "next_package"
    /\ IF entries = <<>>
       THEN /\ result' = "ok"
            /\ pc' = "exit"
            /\ UNCHANGED <<entries, errors_met, diff>>
       ELSE /\ entries' = Tail(entries)
            /\ errors_met' = IF Head(entries) = "err"
                             THEN errors_met \cup {"dir_entry"}
                             ELSE errors_met
            /\ IF Head(entries) = "pkg"
               THEN pc' = "diff_engines" /\ diff' = DefaultDiff
               ELSE pc' = "next_package" /\ UNCHANGED diff
            /\ UNCHANGED result
    /\ UNCHANGED <<fs, listing, doc, runs, patches, wmf, stdout, invoked,
                   fs0, tvars>>

PcDiff(c) == IF c = "engines" THEN "diff_engines" ELSE "diff_flight_model"
PcAfterDiff(c) == IF c = "engines" THEN "diff_flight_model" ELSE "write_engines"
PcWrite(c) == IF c = "engines" THEN "write_engines" ELSE "write_flight_model"
PcAfterWrite(c) == IF c = "engines" THEN "write_flight_model" ELSE "next_package"

\* Patch::diff, the block of one category. The walk of find_path drops the
\* entries it cannot read (entry.ok()?): with walk_err an unreadable
\* directory is met, and the file is missed when it lies inside it.
Patch_diff(c) ==
    /\ pc = PcDiff(c)
    /\ IF is_empty(patches[c])
       THEN /\ pc' = PcAfterDiff(c)
            /\ UNCHANGED <<diff, errors_met, result>>
       ELSE \E walk_err \in BOOLEAN, hidden \in BOOLEAN, read_ok \in BOOLEAN :
            /\ hidden => walk_err
            /\ LET target == IF hidden THEN None
                             ELSE find_path(fs, file_name(c))
                   met == IF walk_err THEN {"walk"} ELSE {}
               IN  IF target = None
                   THEN /\ pc' = PcAfterDiff(c)
                        /\ errors_met' = errors_met \cup met
                        /\ UNCHANGED <<diff, result>>
                   ELSE IF ~read_ok
                   THEN /\ errors_met' = errors_met \cup met \cup {"read"}
                        /\ result' = "err"
                        /\ pc' = "exit"
                        /\ UNCHANGED diff
                   ELSE /\ diff' = [diff EXCEPT ![c] =
                                [path |-> target,
                                 changes |-> build_diff(patches[c], fs[target].content)]]
                        /\ errors_met' = errors_met \cup met
                        /\ pc' = PcAfterDiff(c)
                        /\ UNCHANGED result
    /\ UNCHANGED <<fs, listing, doc, runs, patches, entries, wmf, stdout,
                   invoked, fs0, tvars>>

\* write_changes calling write_modified_file without the is_empty test
write_changes_unguarded(c) ==
    /\ pc = PcWrite(c)
    /\ IF FALSE
       THEN /\ pc' = PcAfterWrite(c)
            /\ UNCHANGED <<wmf, stdout, invoked, errors_met, result>>
       ELSE /\ invoked' = invoked \cup {c}
            /\ LET path == diff[c].path
                   call == [NoCall EXCEPT !.cat = c, !.path = path,
                                !.pre = IF path \in FileNames THEN fs[path] ELSE NoFile,
                                !.bak_pre = IF backup_path(path) \in FileNames
                                            THEN fs[backup_path(path)] ELSE NoFile]
               IN  \E read_ok \in BOOLEAN :
                       IF ~read_ok \/ call.pre = NoFile
                       THEN /\ wmf' = [call EXCEPT !.ret = "read_err"]
                            /\ Fail("read")
                            /\ UNCHANGED stdout
                       ELSE /\ wmf' = [call EXCEPT !.buf =
                                  modified_buf(diff[c].changes, lines(call.pre.content), 1)]
                            /\ stdout' = stdout \o
                                  modified_printed(diff[c].changes, lines(call.pre.content), 1)
                            /\ pc' = "wmf_rename"
                            /\ UNCHANGED <<errors_met, result>>
    /\ UNCHANGED <<fs, listing, doc, runs, patches, entries, diff, fs0, tvars>>

\* Diff::write_changes, the test of one category; write_modified_file
\* starts by reading the file and building buf, printing what it rewrites
write_changes(c) ==
    /\ pc = PcWrite(c)
    /\ IF is_empty(diff[c].changes)
       THEN /\ pc' = PcAfterWrite(c)
            /\ UNCHANGED <<wmf, stdout, invoked, errors_met, result>>
       ELSE /\ invoked' = invoked \cup {c}
            /\ LET path == diff[c].path
                   call == [NoCall EXCEPT !.cat = c, !.path = path,
                                !.pre = IF path \in FileNames THEN fs[path] ELSE NoFile,
                                !.bak_pre = IF backup_path(path) \in FileNames
                                            THEN fs[backup_path(path)] ELSE NoFile]
               IN  \E read_ok \in BOOLEAN :
                       IF ~read_ok \/ call.pre = NoFile
                       THEN /\ wmf' = [call EXCEPT !.ret = "read_err"]
                            /\ Fail("read")
                            /\ UNCHANGED stdout
                       ELSE /\ wmf' = [call EXCEPT !.buf =
                                  modified_buf(diff[c].changes, lines(call.pre.content), 1)]
                            /\ stdout' = stdout \o
                                  modified_printed(diff[c].changes, lines(call.pre.content), 1)
                            /\ pc' = "wmf_rename"
                            /\ UNCHANGED <<errors_met, result>>
    /\ UNCHANGED <<fs, listing, doc, runs, patches, entries, diff, fs0, tvars>>

\* the rename without the ?: its error is dropped and the write follows
wmf_rename_error_dropped ==
    /\ pc = "wmf_rename"
    /\ \E rename_ok \in BOOLEAN :
           IF ~rename_ok \/ rename_fails(fs, wmf.path)
           THEN /\ wmf' = [wmf EXCEPT !.ret = "rename_err", !.rename_failed = TRUE]
                /\ errors_met' = errors_met \cup {"rename"}
                /\ pc' = "wmf_write"
                /\ UNCHANGED <<fs, result>>
           ELSE /\ fs' = rename(fs, wmf.path, backup_path(wmf.path))
                /\ wmf' = [wmf EXCEPT !.log = @ \o <<"rename">>]
                /\ pc' = "wmf_write"
                /\ UNCHANGED <<errors_met, result>>
    /\ UNCHANGED <<listing, doc, runs, patches, entries, diff, stdout, invoked,
                   fs0, tvars>>

\* write_modified_file: fs::rename(&patch.path, &backup)?
wmf_rename ==
    /\ pc = "wmf_rename"
    /\ \E rename_ok \in BOOLEAN :
           IF ~rename_ok \/ rename_fails(fs, wmf.path)
           THEN /\ wmf' = [wmf EXCEPT !.ret = "rename_err", !.rename_failed = TRUE]
                /\ Fail("rename")
                /\ UNCHANGED fs
           ELSE /\ fs' = rename(fs, wmf.path, backup_path(wmf.path))
                /\ wmf' = [wmf EXCEPT !.log = @ \o <<"rename">>]
                /\ pc' = "wmf_write"
                /\ UNCHANGED <<errors_met, result>>
    /\ UNCHANGED <<listing, doc, runs, patches, entries, diff, stdout, invoked,
                   fs0, tvars>>

\* write_modified_file: fs::write(&patch.path, buf). A failed write leaves
\* no file (create failed) or an empty one (created, nothing written).
wmf_write ==
    /\ pc = "wmf_write"
    /\ \E write_ok \in BOOLEAN, left \in {NoFile, File(<<>>)} :
           IF ~write_ok
           THEN /\ fs' = [fs EXCEPT ![wmf.path] = left]
                /\ wmf' = [wmf EXCEPT !.ret = "write_err",
                                      !.log = IF left = NoFile THEN @
                                              ELSE @ \o <<"write">>]
                /\ Fail("write")
           ELSE /\ left = NoFile
                /\ fs' = [fs EXCEPT ![wmf.path] = File(wmf.buf)]
                /\ wmf' = [wmf EXCEPT !.ret = "ok", !.log = @ \o <<"write">>]
                /\ pc' = PcAfterWrite(wmf.cat)
                /\ UNCHANGED <<errors_met, result>>
    /\ UNCHANGED <<listing, doc, runs, patches, entries, diff, stdout, invoked,
                   fs0, tvars>>

\* the tool is started again, on the files the last run left, with a patch
\* specification that may differ
start_run ==
    /\ pc = "exit"
    /\ runs < MaxRuns
    /\ runs' = runs + 1
    /\ doc' \in PatchDocs
    /\ pc' = "read_patches"
    /\ patches' = NoPatches
    /\ entries' = <<>>
    /\ diff' = DefaultDiff
    /\ wmf' = NoCall
    /\ result' = "running"
    /\ stdout' = <<>>
    /\ errors_met' = {}
    /\ invoked' = {}
    /\ fs0' = fs
    /\ UNCHANGED <<fs, listing, tvars>>

Next ==
    \/ read_patches
    \/ read_packages
    \/ next_package
    \/ \E c \in Categories : Patch_diff(c)
    \/ \E c \in Categories : write_changes(c)
    \/ wmf_rename
    \/ wmf_write
    \/ start_run

Spec == Init /\ [][Next]_vars

(***************************************************************************)
(* Properties of the text pipeline.                                        *)
(***************************************************************************)
\* the raw value region of an assignment line: after the first "=", up to
\* the first ";" of the remainder
value_region(line) ==
    LET tail == split_once(line, "=")[2]
        vc   == split_once(tail, ";")
    IN  IF vc = None THEN tail ELSE vc[1]

is_assignment(line) == split_once(line, "=") /= None

line_key(line) == trim(split_once(line, "=")[1])

has_comment(line) == split_once(split_once(line, "=")[2], ";") /= None

comment_region(line) == split_once(split_once(line, "=")[2], ";")[2]

\* indices of the input lines that write_modified_file replaces
RewrittenLines ==
    { i \in DOMAIN lines(text) :
          /\ is_assignment(lines(text)[i])
          /\ line_key(lines(text)[i]) \in DOMAIN changes }

\* indices of the assignment lines of the input whose trimmed key is k
Occurrences(k) ==
    { i \in DOMAIN lines(text) :
          is_assignment(lines(text)[i]) /\ line_key(lines(text)[i]) = k }

\* those of them whose trimmed value is not the desired value
Differing(k) ==
    { i \in Occurrences(k) : trim(value_region(lines(text)[i])) /= patch[k] }

MaxOf(S) == CHOOSE m \in S : \A x \in S : x <= m

\* a text cut after every "\n", each piece keeping its line ending
RECURSIVE physical_lines(_)
physical_lines(t) ==
    IF t = <<>> THEN <<>>
    ELSE LET i == find_char(t, "\n")
         IN  IF i = 0 THEN <<t>>
             ELSE <<SubSeq(t, 1, i)>> \o physical_lines(SubSeq(t, i + 1, Len(t)))

\* C1: Idempotence. build_diff on the text that write_modified_file has just
\* written from build_diff(patch, text) yields an empty change set, for every
\* desired value (also with ";" or surrounding whitespace) and duplicate keys.
C1_Idempotence == stage = "rediffed" => is_empty(changes2)

\* C2: Annotated rewrite format. Every rewritten line is exactly
\* "{key} = {new} ; {old}" or "{key} = {new} ; {old} ; {comment}", with
\* single spaces around each delimiter (`thrust = 80 ; max` -> 100 gives
\* `thrust = 100 ; 80 ; max`, `mass = 500` -> 600 gives `mass = 600 ; 500`).
C2_AnnotatedFormat ==
    stage = "written" =>
        \A i \in RewrittenLines :
            LET line == lines(text)[i]
                key  == line_key(line)
            IN  lines(buf)[i] =
                    IF has_comment(line)
                    THEN format_with_comment(key, patch[key],
                                             trim(value_region(line)),
                                             trim(comment_region(line)))
                    ELSE format_no_comment(key, patch[key],
                                           trim(value_region(line)))

\* C4: Passthrough. The written text has the same number of lines in the
\* same order, and every line that is not rewritten is reproduced
\* character-for-character, with its line ending (LF or CRLF) and with the
\* presence or absence of a final newline.
C4_Passthrough ==
    stage = "written" =>
        /\ Len(physical_lines(buf)) = Len(physical_lines(text))
        /\ \A i \in DOMAIN physical_lines(text) :
               i \notin RewrittenLines =>
                   physical_lines(buf)[i] = physical_lines(text)[i]

\* C9: The previous value is never lost. On every rewritten line the
\* {old_value} annotation is the value this same line held before the
\* rewrite, also when the key occurs on several lines with different values.
C9_OldValueOfSameLine ==
    stage = "written" =>
        \A i \in RewrittenLines :
            LET line == lines(text)[i]
                key  == line_key(line)
                old  == changes[key][2]
            IN  /\ lines(buf)[i] =
                       IF has_comment(line)
                       THEN format_with_comment(key, changes[key][1], old,
                                                comment_region(line))
                       ELSE format_no_comment(key, changes[key][1], old)
                /\ trim(old) = trim(value_region(line))

\* C10 as stated: the entry of a key is decided by the last assignment line
\* of that key: no entry when that line's trimmed value equals the desired
\* value, otherwise (desired value, value of that last line).
C10_LastOccurrenceWins ==
    stage = "diffed" =>
        \A k \in DOMAIN patch :
            Occurrences(k) /= {} =>
                LET last == lines(text)[MaxOf(Occurrences(k))]
                IN  IF trim(value_region(last)) = patch[k]
                    THEN k \notin DOMAIN changes
                    ELSE /\ k \in DOMAIN changes
                         /\ changes[k] = <<patch[k], value_region(last)>>

\* C10 amended: the entry of a key is decided by the last assignment line of
\* that key whose trimmed value differs from the desired value: no entry
\* when there is no such line (key absent, or every occurrence already at
\* the desired value), otherwise (desired value, raw value region of that
\* line), also when a later line of the key already holds the desired value.
C10_LastDifferingWins ==
    stage = "diffed" =>
        /\ DOMAIN changes \subseteq DOMAIN patch
        /\ \A k \in DOMAIN patch :
               /\ k \in DOMAIN changes <=> Differing(k) /= {}
               /\ Differing(k) /= {} =>
                      changes[k] =
                          <<patch[k],
                            value_region(lines(text)[MaxOf(Differing(k))])>>

\* a key occurs twice, the earlier line differs from the desired value and
\* the last line already holds it, and build_diff has recorded an entry
C10_Witness ==
    /\ stage = "diffed"
    /\ \E k \in DOMAIN patch :
           /\ Cardinality(Occurrences(k)) >= 2
           /\ Differing(k) /= {}
           /\ MaxOf(Occurrences(k)) \notin Differing(k)
           /\ k \in DOMAIN changes

(***************************************************************************)
(* Properties of the run.                                                  *)
(***************************************************************************)
\* C3: Backup before write. When write_modified_file has returned success,
\* the backup path (extension replaced by bak.cfg) holds the content the
\* original path had before the call, the original path holds the newly
\* built text, and the rename happened before the write.
C3_BackupBeforeWrite ==
    wmf.ret = "ok" =>
        /\ ~is_empty(diff[wmf.cat].changes)
        /\ backup_path(wmf.path) = backup_name(wmf.cat)
        /\ fs[backup_name(wmf.cat)] = wmf.pre
        /\ fs[wmf.path] = File(wmf.buf)
        /\ wmf.log = <<"rename", "write">>

\* a call has returned success and the backup differs from the new content
C3_Witness ==
    /\ wmf.ret = "ok"
    /\ wmf.pre.exists
    /\ fs[backup_name(wmf.cat)] /= fs[file_name(wmf.cat)]

\* C5: Backup collision is an error. When a file already exists at the
\* backup path as write_modified_file is called, the call fails and the
\* existing backup keeps its content: the first backup is never replaced.
C5_BackupCollisionIsError ==
    (wmf.cat /= "-" /\ wmf.bak_pre.exists) =>
        /\ wmf.ret /= "ok"
        /\ fs[backup_name(wmf.cat)] = wmf.bak_pre

\* C6: When the rename to the backup path fails, write_modified_file
\* returns the error without any write: the run ends with an error, the
\* original path still holds its content, nothing was written or renamed.
C6_RenameFailureLeavesOriginal ==
    wmf.rename_failed =>
        /\ pc = "exit"
        /\ result = "err"
        /\ wmf.ret = "rename_err"
        /\ wmf.log = <<>>
        /\ fs[wmf.path] = wmf.pre
        /\ fs[backup_name(wmf.cat)] = wmf.bak_pre

\* a rename has failed on a file that was read
C6_Witness ==
    /\ wmf.rename_failed
    /\ wmf.pre.exists
    /\ wmf.buf /= wmf.pre.content

\* C7: Empty change set short-circuit. For a category whose change set is
\* empty (mapping empty, file not found, keys absent, or values already as
\* desired) write_modified_file is not invoked in this run and the file and
\* its backup path are as they were when the run started.
C7_EmptyChangeSetShortCircuit ==
    \A c \in Categories :
        is_empty(diff[c].changes) =>
            /\ c \notin invoked
            /\ fs[file_name(c)] = fs0[file_name(c)]
            /\ fs[backup_name(c)] = fs0[backup_name(c)]

\* a run has ended well with a category whose file was found and holds the
\* mapped key at the desired value already
C7_Witness ==
    /\ pc = "exit"
    /\ result = "ok"
    /\ \E c \in Categories :
           /\ ~is_empty(patches[c])
           /\ diff[c].path = file_name(c)
           /\ is_empty(diff[c].changes)
           /\ \E i \in DOMAIN lines(fs[file_name(c)].content) :
                  LET line == lines(fs[file_name(c)].content)[i]
                  IN  /\ is_assignment(line)
                      /\ line_key(line) \in DOMAIN patches[c]

\* C8: No error is swallowed. A run that met an I/O failure (packages root,
\* directory entry, package subtree, config file, rename, write) or a parse
\* failure ends with an error.
C8_NoErrorSwallowed ==
    (pc = "exit" /\ errors_met /= {}) => result = "err"

====
